---- MODULE Spec2Model ----
(***************************************************************************)
(* A model of troyc/myjsbench, crate wasm-sim: the uniform spatial grid    *)
(* (spatial_grid.rs), the world step and placement (world.rs), the LCG     *)
(* (rng.rs) and the simulation facade (simulation.rs).                     *)
(*                                                                         *)
(* Numbers.  An f32 that lives in the program state (a position, a         *)
(* velocity, a radius, a cell size) is modelled by an integer number of    *)
(* world units; every f32 operation is modelled by the integer operation   *)
(* followed by a rounding to that lattice (RDiv, Isqrt).  A unit vector is *)
(* kept in fixed point with NormalOne parts per unit.  An f32 handed in by *)
(* the caller can also be NaN or infinite: such arguments are FVal         *)
(* records.  u32 counters keep wrapping / saturating arithmetic, on a      *)
(* narrower word (StampWrap, IdMax) so that the wrap is within reach.      *)
(***************************************************************************)
EXTENDS Integers, Sequences, FiniteSets, TLC

VARIABLES sim, panicked, g, live, last, nops, idle

vars == <<sim, panicked, g, live, last, nops, idle>>

(***************************************************************************)
(* Bounds of the model.                                                    *)
(***************************************************************************)
\* u32 stamps wrap at 2^32 in the source; the model's stamps wrap at StampWrap.
StampWrap == 6
\* fixed-point denominator of a unit normal
NormalOne == 1024
\* calls per behaviour of the grid specification
MaxGridOps == 4

(***************************************************************************)
(* Program constants.                                                      *)
(***************************************************************************)
WORLD_WIDTH == 2500
WORLD_HEIGHT == 1200
INITIAL_CELL_SIZE == 24
MIN_CELL_SIZE == 8

(***************************************************************************)
(* Arithmetic helpers.                                                     *)
(***************************************************************************)
Min(a, b) == IF a < b THEN a ELSE b

Max(a, b) == IF a > b THEN a ELSE b

Abs(a) == IF a < 0 THEN -a ELSE a

\* ceil(a / b) for b > 0
CeilDiv(a, b) == -((-a) \div b)

\* F applied to the value of v.  TLC evaluates v once, here, and hands F a value:
\* this is "let x = v" of a strict language.
With(v, F(_)) == CHOOSE r \in {F(x) : x \in {v}} : TRUE

\* a / b rounded to the nearest integer, halves away from zero (b > 0)
RDiv(a, b) == IF a >= 0 THEN (2 * a + b) \div (2 * b) ELSE -((2 * (-a) + b) \div (2 * b))

(***************************************************************************)
(* spatial_grid.rs                                                         *)
(***************************************************************************)
EmptyCell == [items |-> <<>>, stamp |-> 0]

\* Vec<Cell> is kept sparse: a cell that was never written since the cells
\* were (re)allocated or reset is Cell { items: [], stamp: 0 }.  cells_len is
\* the length of the Vec.
CellAt(grid, idx) == IF idx \in DOMAIN grid.cells THEN grid.cells[idx] ELSE EmptyCell

dims(width, height, cell_size) ==
    [cols |-> Max(CeilDiv(width, cell_size), 1), rows |-> Max(CeilDiv(height, cell_size), 1)]

SpatialGridNew(width, height, cell_size) ==
    [cells |-> << >>,
     cells_len |-> Max(CeilDiv(width, cell_size), 1) * Max(CeilDiv(height, cell_size), 1),
     cols |-> Max(CeilDiv(width, cell_size), 1),
     rows |-> Max(CeilDiv(height, cell_size), 1),
     width |-> width,
     height |-> height,
     cell_size |-> cell_size,
     stamp |-> 1,
     seen_marks |-> << >>,
     seen_stamp |-> 1]

\* set_cell_size after its assertion (the assertion is AssertCellSize)
set_cell_size(grid, cell_size) ==
    LET d == dims(grid.width, grid.height, cell_size) IN
    IF d.cols # grid.cols \/ d.rows # grid.rows
    THEN [grid EXCEPT !.cell_size = cell_size, !.cols = d.cols, !.rows = d.rows,
                      !.cells = << >>, !.cells_len = d.cols * d.rows,
                      !.seen_marks = << >>, !.seen_stamp = 1]
    ELSE [grid EXCEPT !.cell_size = cell_size, !.stamp = 1,
                      !.cells = << >>, !.seen_marks = << >>, !.seen_stamp = 1]

\* clear without the branch for the wrap-around
clear_wrapping(grid) ==
    [grid EXCEPT !.stamp = (grid.stamp + 1) % StampWrap]

clear(grid) ==
    LET s == (grid.stamp + 1) % StampWrap IN
    IF s = 0
    THEN [grid EXCEPT !.stamp = 1, !.cells = << >>]
    ELSE [grid EXCEPT !.stamp = s]

\* clamp_index letting max itself through
clamp_index_inclusive(v, max) == IF v < 0 THEN 0 ELSE IF v > max THEN max ELSE v

clamp_index(v, max) == IF v < 0 THEN 0 ELSE IF v >= max THEN max - 1 ELSE v

\* floor(x * cell_size_inv)
to_col(grid, x) == x \div grid.cell_size

to_row(grid, y) == y \div grid.cell_size

\* the clamped column/row range of the bounding square of (x, y, radius)
CellRange(grid, x, y, radius) ==
    [min_col |-> clamp_index(to_col(grid, x - radius), grid.cols),
     max_col |-> clamp_index(to_col(grid, x + radius), grid.cols),
     min_row |-> clamp_index(to_row(grid, y - radius), grid.rows),
     max_row |-> clamp_index(to_row(grid, y + radius), grid.rows)]

\* the cell indices of "for row in min_row..=max_row { for col in min_col..=max_col"
\* in visiting order
RangeCells(grid, rg) ==
    LET w == rg.max_col - rg.min_col + 1
        h == rg.max_row - rg.min_row + 1
    IN  IF w <= 0 \/ h <= 0 THEN << >>
        ELSE [k \in 1..(w * h) |->
                (rg.min_row + ((k - 1) \div w)) * grid.cols + rg.min_col + ((k - 1) % w)]

SeqRange(s) == {s[k] : k \in DOMAIN s}

\* insert registering the body in the cell of its centre alone
insert_centre_only(grid, index, x, y, radius) ==
    With({clamp_index(to_row(grid, y), grid.rows) * grid.cols
            + clamp_index(to_col(grid, x), grid.cols)}, LAMBDA covered :
        [grid EXCEPT !.cells =
            [idx \in (DOMAIN grid.cells) \cup covered |->
                IF idx \in covered
                THEN [items |-> Append(IF CellAt(grid, idx).stamp # grid.stamp
                                       THEN << >> ELSE CellAt(grid, idx).items, index),
                      stamp |-> grid.stamp]
                ELSE grid.cells[idx]]])

\* insert restamping a stale cell without emptying it
insert_keep_stale(grid, index, x, y, radius) ==
    With(SeqRange(RangeCells(grid, CellRange(grid, x, y, radius))), LAMBDA covered :
        [grid EXCEPT !.cells =
            [idx \in (DOMAIN grid.cells) \cup covered |->
                IF idx \in covered
                THEN [items |-> Append(CellAt(grid, idx).items, index), stamp |-> grid.stamp]
                ELSE grid.cells[idx]]])

insert(grid, index, x, y, radius) ==
    With(SeqRange(RangeCells(grid, CellRange(grid, x, y, radius))), LAMBDA covered :
        [grid EXCEPT !.cells =
            [idx \in (DOMAIN grid.cells) \cup covered |->
                IF idx \in covered
                THEN [items |-> Append(IF CellAt(grid, idx).stamp # grid.stamp
                                       THEN << >> ELSE CellAt(grid, idx).items, index),
                      stamp |-> grid.stamp]
                ELSE grid.cells[idx]]])

\* the items a query reads from cell idx: none when the cell's stamp is stale
LiveItems(grid, idx) == IF CellAt(grid, idx).stamp # grid.stamp THEN << >> ELSE CellAt(grid, idx).items

\* "if idx < seen_marks.len() { seen_marks[idx] != seen_stamp } else { seen_external.insert(idx) }"
\* for an index not pushed earlier in this query (seen_external was cleared on entry)
NotSeenBefore(marks, seen_stamp, idx) == idx < Len(marks) => marks[idx + 1] # seen_stamp

\* the two loops of query over the cells order[1..n].  An index is pushed when it
\* is met for the first time, so the result vector lists the indices met in the
\* order of the first cell that holds them, and within one cell in the order of
\* its items.  hits[k] is what the k-th cell visited holds, cell[i] the first
\* cell that holds i, place[i] the first place of i in it.
VisitCells(grid, order, marks, seen_stamp) ==
    With([k \in DOMAIN order |-> LiveItems(grid, order[k])], LAMBDA hits :
    With({i \in UNION {SeqRange(hits[k]) : k \in DOMAIN hits} :
             NotSeenBefore(marks, seen_stamp, i)}, LAMBDA met :
    With([i \in met |-> CHOOSE k \in DOMAIN hits :
             /\ i \in SeqRange(hits[k])
             /\ \A j \in 1..(k - 1) : i \notin SeqRange(hits[j])], LAMBDA cell :
    With([i \in met |-> CHOOSE p \in DOMAIN hits[cell[i]] :
             /\ hits[cell[i]][p] = i
             /\ \A o \in 1..(p - 1) : hits[cell[i]][o] # i], LAMBDA place :
        [r \in 1..Cardinality(met) |->
            CHOOSE i \in met :
                Cardinality({j \in met : \/ cell[j] < cell[i]
                                         \/ cell[j] = cell[i] /\ place[j] < place[i]}) = r - 1]))))

\* query returning the indices kept in the hash set in the set's iteration order,
\* which the set's key decides
query_hash_order(grid, x, y, radius, seen_external) ==
    LET s1 == (grid.seen_stamp + 1) % StampWrap
        seen_stamp == IF s1 = 0 THEN 1 ELSE s1
    IN
    With(IF s1 = 0 THEN [k \in DOMAIN grid.seen_marks |-> 0] ELSE grid.seen_marks, LAMBDA marks0 :
    With(RangeCells(grid, CellRange(grid, x, y, radius)), LAMBDA order :
    With(VisitCells(grid, order, marks0, seen_stamp), LAMBDA found :
    With(IF seen_external.key % 2 = 0 THEN found
         ELSE [k \in DOMAIN found |-> found[Len(found) + 1 - k]], LAMBDA results :
        [results |-> results,
         grid |-> [grid EXCEPT !.seen_stamp = seen_stamp,
                               !.seen_marks = [k \in DOMAIN marks0 |->
                                   IF (k - 1) \in SeqRange(results) THEN seen_stamp ELSE marks0[k]]],
         seen_external |-> [seen_external EXCEPT
                               !.elems = {i \in SeqRange(results) : i >= Len(marks0)}]]))))

\* the items of the cells order[k..], stale cells skipped, one after the other
RECURSIVE ItemsFrom(_, _, _)
ItemsFrom(grid, order, k) ==
    IF k > Len(order) THEN << >>
    ELSE With(k + 1, LAMBDA k1 : LiveItems(grid, order[k]) \o ItemsFrom(grid, order, k1))

\* query pushing every item of every current cell it visits, met before or not
query_every_item(grid, x, y, radius, seen_external) ==
    LET s1 == (grid.seen_stamp + 1) % StampWrap
        seen_stamp == IF s1 = 0 THEN 1 ELSE s1
    IN
    With(IF s1 = 0 THEN [k \in DOMAIN grid.seen_marks |-> 0] ELSE grid.seen_marks, LAMBDA marks0 :
    With(RangeCells(grid, CellRange(grid, x, y, radius)), LAMBDA order :
    With(ItemsFrom(grid, order, 1), LAMBDA results :
        [results |-> results,
         grid |-> [grid EXCEPT !.seen_stamp = seen_stamp,
                               !.seen_marks = [k \in DOMAIN marks0 |->
                                   IF (k - 1) \in SeqRange(results) THEN seen_stamp ELSE marks0[k]]],
         seen_external |-> [seen_external EXCEPT
                               !.elems = {i \in SeqRange(results) : i >= Len(marks0)}]])))

\* query: the result vector, the grid (seen_stamp, seen_marks) and the caller's hash set
\* after the call.  seen_external is [key, elems]: ahash's per-set random key
\* and the members.
query(grid, x, y, radius, seen_external) ==
    LET s1 == (grid.seen_stamp + 1) % StampWrap
        seen_stamp == IF s1 = 0 THEN 1 ELSE s1
    IN
    With(IF s1 = 0 THEN [k \in DOMAIN grid.seen_marks |-> 0] ELSE grid.seen_marks, LAMBDA marks0 :
    With(RangeCells(grid, CellRange(grid, x, y, radius)), LAMBDA order :
    With(VisitCells(grid, order, marks0, seen_stamp), LAMBDA results :
        [results |-> results,
         grid |-> [grid EXCEPT !.seen_stamp = seen_stamp,
                               !.seen_marks = [k \in DOMAIN marks0 |->
                                   IF (k - 1) \in SeqRange(results) THEN seen_stamp ELSE marks0[k]]],
         seen_external |-> [seen_external EXCEPT
                               !.elems = {i \in SeqRange(results) : i >= Len(marks0)}]])))

\* assert!(cell_size > 0.0) of SpatialGrid::new and set_cell_size, on an f32 argument
AssertCellSize(f) == f.k \in {"inf", "num"} /\ f.v > 0

(***************************************************************************)
(* f32 arguments of the exported calls.                                    *)
(***************************************************************************)
Num(v) == [k |-> "num", v |-> v]

NaN == [k |-> "nan", v |-> 0]

PosInf == [k |-> "inf", v |-> 1]

NegInf == [k |-> "inf", v |-> -1]

FGtZero(f) == f.k \in {"inf", "num"} /\ f.v > 0

FLeZero(f) == f.k \in {"inf", "num"} /\ f.v <= 0

FIsFinite(f) == f.k = "num"

\* f32::clamp(self, min, max): NaN stays NaN
FClamp(f, lo, hi) ==
    IF f.k = "nan" THEN NaN
    ELSE IF f.k = "inf" THEN (IF f.v > 0 THEN Num(hi) ELSE Num(lo))
    ELSE Num(Max(lo, Min(f.v, hi)))

\* a finite f32 plus an f32 argument
FAdd(cur, f) == IF f.k = "num" THEN Num(cur + f.v) ELSE f

(***************************************************************************)
(* rng.rs: the 64-bit state is eight bytes, least significant first.       *)
(***************************************************************************)
LcgSeed == <<240, 222, 188, 154, 120, 86, 52, 18>>

LcgMultiplier == <<45, 127, 149, 76, 45, 244, 81, 88>>

\* column k of the schoolbook product a * m, before carries
MulColumn(a, m, k) ==
    LET P[i \in 0..k] == IF i = 0 THEN 0 ELSE P[i - 1] + a[i] * m[k + 1 - i] IN P[k]

\* (a * m + c) mod 2^64 on bytes: Carry[k] is the carry into byte k
MulAdd64(a, m, c) ==
    LET Carry[k \in 1..8] == IF k = 1 THEN c ELSE (MulColumn(a, m, k - 1) + Carry[k - 1]) \div 256
    IN  [k \in 1..8 |-> (MulColumn(a, m, k) + Carry[k]) % 256]

Lcg_new(seed) == [state |-> seed]

\* next_u32: the new state; the value returned is its upper four bytes
next_u32(rng) == [state |-> MulAdd64(rng.state, LcgMultiplier, 1)]

\* next_f32: the value is kept to its upper 16 bits, as a count of 1/65536
next_f32(rng) ==
    With(next_u32(rng), LAMBDA r : [rng |-> r, f |-> r.state[8] * 256 + r.state[7]])

\* an f32 in [0, 1) times a length, on the integer lattice
MulF(f, len) == (f * len) \div 65536

(***************************************************************************)
(* world.rs                                                                *)
(***************************************************************************)
NoBody == [some |-> FALSE, x |-> 0, y |-> 0, vx |-> 0, vy |-> 0, radius |-> 0]

SomeBody(x, y, vx, vy, radius) ==
    [some |-> TRUE, x |-> x, y |-> y, vx |-> vx, vy |-> vy, radius |-> radius]

World_new(width, height, cell_size) ==
    [entities |-> << >>, width |-> width, height |-> height,
     spatial_grid |-> SpatialGridNew(width, height, cell_size)]

\* collides weighing the candidate's own radius alone
collides_own_radius(entities, x, y, radius) ==
    \E k \in DOMAIN entities :
        /\ entities[k].body.some
        /\ LET dx == x - entities[k].body.x
               dy == y - entities[k].body.y
           IN  dx * dx + dy * dy < radius * radius

\* "for other in &self.entities": does the candidate (x, y, radius) collide
collides(entities, x, y, radius) ==
    \E k \in DOMAIN entities :
        /\ entities[k].body.some
        /\ LET dx == x - entities[k].body.x
               dy == y - entities[k].body.y
               min_dist == radius + entities[k].body.radius
           IN  dx * dx + dy * dy < min_dist * min_dist

\* "for _attempt in 0..100"
PlacementAttempts == 100

\* the generators after 1, 2, .. n calls of next_u32 on rng: the first half of
\* the run, then the second half from where the first half ends
RECURSIVE LcgRun(_, _)
LcgRun(rng, n) ==
    IF n <= 0 THEN << >>
    ELSE IF n = 1 THEN <<next_u32(rng)>>
    ELSE With(LcgRun(rng, n \div 2), LAMBDA front :
            front \o LcgRun(front[Len(front)], n - Len(front)))

\* the value next_f32 returns when it leaves the generator r behind
F32Of(r) == r.state[8] * 256 + r.state[7]

\* candidates 1 .. n generated from rng: "x = rng.next_f32() * self.width; y = .."
CandidateRun(world, rng, n) ==
    With(2 * n, LAMBDA draws :
    With(LcgRun(rng, draws), LAMBDA run :
        [k \in 1..n |-> [x |-> MulF(F32Of(run[2 * k - 1]), world.width),
                          y |-> MulF(F32Of(run[2 * k]), world.height),
                          rng |-> run[2 * k]]]))

\* the attempts from number `attempt` on: [placed, x, y, rng].  The first
\* attempt is looked at by itself, the attempts after it together; of the
\* candidates the first that does not collide is taken, and the candidates
\* after it are dropped with the generators they came from.
place(world, radius, rng, attempt) ==
    IF attempt >= PlacementAttempts
    THEN [placed |-> FALSE, x |-> 0, y |-> 0, rng |-> rng]
    ELSE With(CandidateRun(world, rng, 1), LAMBDA first :
         IF ~collides(world.entities, first[1].x, first[1].y, radius)
         THEN [placed |-> TRUE, x |-> first[1].x, y |-> first[1].y, rng |-> first[1].rng]
         ELSE IF attempt + 1 >= PlacementAttempts
         THEN [placed |-> FALSE, x |-> 0, y |-> 0, rng |-> first[1].rng]
         ELSE With(CandidateRun(world, first[1].rng, PlacementAttempts - attempt - 1),
                   LAMBDA cand :
              With({k \in DOMAIN cand :
                       ~collides(world.entities, cand[k].x, cand[k].y, radius)},
                   LAMBDA free :
                 IF free = {}
                 THEN [placed |-> FALSE, x |-> 0, y |-> 0, rng |-> cand[Len(cand)].rng]
                 ELSE With(CHOOSE k \in free : \A j \in free : k <= j, LAMBDA k :
                         [placed |-> TRUE, x |-> cand[k].x, y |-> cand[k].y,
                          rng |-> cand[k].rng]))))

\* add_entity dropping the entity it found no free place for
add_entity_drop_unplaced(world, entity, rng) ==
    IF ~entity.body.some
    THEN [world |-> [world EXCEPT !.entities = Append(@, entity)], rng |-> rng]
    ELSE With(place(world, entity.body.radius, rng, 0), LAMBDA p :
         IF p.placed
         THEN [world |-> [world EXCEPT !.entities =
                             Append(@, [entity EXCEPT !.body.x = p.x, !.body.y = p.y])],
               rng |-> p.rng]
         ELSE [world |-> world, rng |-> p.rng])

\* add_entity leaving the body it found no free place for where it was created
add_entity_unplaced_origin(world, entity, rng) ==
    IF ~entity.body.some
    THEN [world |-> [world EXCEPT !.entities = Append(@, entity)], rng |-> rng]
    ELSE With(place(world, entity.body.radius, rng, 0), LAMBDA p :
         IF p.placed
         THEN [world |-> [world EXCEPT !.entities =
                             Append(@, [entity EXCEPT !.body.x = p.x, !.body.y = p.y])],
               rng |-> p.rng]
         ELSE [world |-> [world EXCEPT !.entities = Append(@, entity)], rng |-> p.rng])

\* add_entity: [world, rng]
add_entity(world, entity, rng) ==
    IF ~entity.body.some
    THEN [world |-> [world EXCEPT !.entities = Append(@, entity)], rng |-> rng]
    ELSE With(place(world, entity.body.radius, rng, 0), LAMBDA p :
         IF p.placed
         THEN [world |-> [world EXCEPT !.entities =
                             Append(@, [entity EXCEPT !.body.x = p.x, !.body.y = p.y])],
               rng |-> p.rng]
         ELSE With(next_f32(p.rng), LAMBDA fx :
              With(next_f32(fx.rng), LAMBDA fy :
                 [world |-> [world EXCEPT !.entities =
                                Append(@, [entity EXCEPT !.body.x = MulF(fx.f, world.width),
                                                         !.body.y = MulF(fy.f, world.height)])],
                  rng |-> fy.rng])))

remove_entities(world) ==
    [world EXCEPT !.entities = SubSeq(world.entities, 1, Len(world.entities) \div 2)]

scale_radii(world, factor) ==
    [world EXCEPT !.entities =
        [k \in DOMAIN world.entities |->
            IF world.entities[k].body.some
            THEN [world.entities[k] EXCEPT !.body.radius = @ * factor]
            ELSE world.entities[k]]]

\* floor(sqrt(n)) by bisection: lo * lo <= n < hi * hi
RECURSIVE IsqrtBetween(_, _, _)
IsqrtBetween(n, lo, hi) ==
    IF hi - lo <= 1 THEN lo
    ELSE With((lo + hi) \div 2, LAMBDA mid :
         IF mid * mid <= n THEN IsqrtBetween(n, mid, hi) ELSE IsqrtBetween(n, lo, mid))

Isqrt(n) == IsqrtBetween(n, 0, 32768)

\* integrate negating the velocity at a wall instead of forcing its sign
integrate_negating(body, delta_time, width, height) ==
    LET x1 == body.x + body.vx * delta_time
        y1 == body.y + body.vy * delta_time
        radius == body.radius
        lowx == x1 - radius < 0
        highx == ~lowx /\ x1 + radius > width
        lowy == y1 - radius < 0
        highy == ~lowy /\ y1 + radius > height
    IN  [body EXCEPT
            !.x = IF lowx THEN radius ELSE IF highx THEN width - radius ELSE x1,
            !.vx = IF lowx \/ highx THEN -body.vx ELSE body.vx,
            !.y = IF lowy THEN radius ELSE IF highy THEN height - radius ELSE y1,
            !.vy = IF lowy \/ highy THEN -body.vy ELSE body.vy]

\* the first loop's body for one entity: integration and wall reflection
integrate(body, delta_time, width, height) ==
    LET x1 == body.x + body.vx * delta_time
        y1 == body.y + body.vy * delta_time
        radius == body.radius
        lowx == x1 - radius < 0
        highx == ~lowx /\ x1 + radius > width
        lowy == y1 - radius < 0
        highy == ~lowy /\ y1 + radius > height
    IN  [body EXCEPT
            !.x = IF lowx THEN radius ELSE IF highx THEN width - radius ELSE x1,
            !.vx = IF lowx THEN Abs(body.vx) ELSE IF highx THEN -Abs(body.vx) ELSE body.vx,
            !.y = IF lowy THEN radius ELSE IF highy THEN height - radius ELSE y1,
            !.vy = IF lowy THEN Abs(body.vy) ELSE IF highy THEN -Abs(body.vy) ELSE body.vy]

\* the first loop's inserts, entity k (1-based) onwards; the grid token is k - 1
RECURSIVE insert_all(_, _, _)
insert_all(grid, entities, k) ==
    IF k > Len(entities) THEN grid
    ELSE With(IF entities[k].body.some
              THEN insert(grid, k - 1, entities[k].body.x, entities[k].body.y,
                          entities[k].body.radius)
              ELSE grid,
              LAMBDA grid1 : With(k + 1, LAMBDA k1 : insert_all(grid1, entities, k1)))

\* the narrow phase correcting positions for closing pairs alone
resolve_closing_only(body_a, body_b) ==
    LET dx == body_b.x - body_a.x
        dy == body_b.y - body_a.y
        d2 == dx * dx + dy * dy
        min_dist == body_a.radius + body_b.radius
    IN  IF d2 <= 0 \/ d2 >= min_dist * min_dist THEN [a |-> body_a, b |-> body_b]
        ELSE With(Isqrt(d2), LAMBDA distance :
             With(RDiv(dx * NormalOne, distance), LAMBDA nx :
             With(RDiv(dy * NormalOne, distance), LAMBDA ny :
             LET dvx == body_a.vx - body_b.vx
                 dvy == body_a.vy - body_b.vy
                 vn == RDiv(dvx * nx + dvy * ny, NormalOne)
                 overlap == min_dist - distance
                 separation_x == IF overlap > 0 /\ vn > 0
                                 THEN RDiv(nx * overlap, 2 * NormalOne) ELSE 0
                 separation_y == IF overlap > 0 /\ vn > 0
                                 THEN RDiv(ny * overlap, 2 * NormalOne) ELSE 0
                 ix == IF vn > 0 THEN RDiv(vn * nx, NormalOne) ELSE 0
                 iy == IF vn > 0 THEN RDiv(vn * ny, NormalOne) ELSE 0
             IN  [a |-> [body_a EXCEPT !.x = @ - separation_x, !.y = @ - separation_y,
                                       !.vx = @ - ix, !.vy = @ - iy],
                  b |-> [body_b EXCEPT !.x = @ + separation_x, !.y = @ + separation_y,
                                       !.vx = @ + ix, !.vy = @ + iy]])))

\* narrow phase for the pair (body_a, body_b): [a, b]
resolve(body_a, body_b) ==
    LET dx == body_b.x - body_a.x
        dy == body_b.y - body_a.y
        d2 == dx * dx + dy * dy
        min_dist == body_a.radius + body_b.radius
    IN  IF d2 <= 0 \/ d2 >= min_dist * min_dist THEN [a |-> body_a, b |-> body_b]
        ELSE With(Isqrt(d2), LAMBDA distance :
             With(RDiv(dx * NormalOne, distance), LAMBDA nx :
             With(RDiv(dy * NormalOne, distance), LAMBDA ny :
             LET dvx == body_a.vx - body_b.vx
                 dvy == body_a.vy - body_b.vy
                 vn == RDiv(dvx * nx + dvy * ny, NormalOne)
                 overlap == min_dist - distance
                 separation_x == IF overlap > 0 THEN RDiv(nx * overlap, 2 * NormalOne) ELSE 0
                 separation_y == IF overlap > 0 THEN RDiv(ny * overlap, 2 * NormalOne) ELSE 0
                 ix == IF vn > 0 THEN RDiv(vn * nx, NormalOne) ELSE 0
                 iy == IF vn > 0 THEN RDiv(vn * ny, NormalOne) ELSE 0
             IN  [a |-> [body_a EXCEPT !.x = @ - separation_x, !.y = @ - separation_y,
                                       !.vx = @ - ix, !.vy = @ - iy],
                  b |-> [body_b EXCEPT !.x = @ + separation_x, !.y = @ + separation_y,
                                       !.vx = @ + ix, !.vy = @ + iy]])))

\* the loop over nearby skipping j < i alone, so that entity i is paired with itself
RECURSIVE resolve_nearby_from_self(_, _, _, _)
resolve_nearby_from_self(entities, i, nearby, k) ==
    IF k > Len(nearby) THEN [entities |-> entities, panic |-> FALSE, pairs |-> << >>]
    ELSE With(nearby[k], LAMBDA j :
         With(k + 1, LAMBDA k1 :
         IF j < i THEN resolve_nearby_from_self(entities, i, nearby, k1)
         ELSE IF j >= Len(entities)
              THEN [entities |-> entities, panic |-> TRUE, pairs |-> << >>]
         ELSE IF ~(entities[i + 1].body.some /\ entities[j + 1].body.some)
              THEN resolve_nearby_from_self(entities, i, nearby, k1)
         ELSE With(resolve(entities[i + 1].body, entities[j + 1].body), LAMBDA r :
              With([entities EXCEPT ![i + 1].body = r.a, ![j + 1].body = r.b], LAMBDA entities1 :
              With(resolve_nearby_from_self(entities1, i, nearby, k1), LAMBDA rest :
                 [rest EXCEPT !.pairs = <<(<<i, j>>)>> \o @])))))

\* "for &j in &nearby" for entity i (0-based), from position k of nearby on:
\* [entities, panic, pairs]; split_at_mut(j) / right[0] panic when j is no index.
\* pairs lists, in order, the pairs <<i, j>> that got past "if j <= i" and the
\* test for two bodies, to the narrow phase.
RECURSIVE resolve_nearby(_, _, _, _)
resolve_nearby(entities, i, nearby, k) ==
    IF k > Len(nearby) THEN [entities |-> entities, panic |-> FALSE, pairs |-> << >>]
    ELSE With(nearby[k], LAMBDA j :
         With(k + 1, LAMBDA k1 :
         IF j <= i THEN resolve_nearby(entities, i, nearby, k1)
         ELSE IF j >= Len(entities)
              THEN [entities |-> entities, panic |-> TRUE, pairs |-> << >>]
         ELSE IF ~(entities[i + 1].body.some /\ entities[j + 1].body.some)
              THEN resolve_nearby(entities, i, nearby, k1)
         ELSE With(resolve(entities[i + 1].body, entities[j + 1].body), LAMBDA r :
              With([entities EXCEPT ![i + 1].body = r.a, ![j + 1].body = r.b], LAMBDA entities1 :
              With(resolve_nearby(entities1, i, nearby, k1), LAMBDA rest :
                 [rest EXCEPT !.pairs = <<(<<i, j>>)>> \o @])))))

\* the second loop, entity i (0-based) onwards: [entities, grid, seen, panic, queries].
\* world.rs spells the grid call get_entities_in_radius(x, y, radius, Some(i), seen);
\* the grid under src/ defines it as query, and index i itself is skipped by j <= i.
\* queries lists, in order, what the loop met: for each i with a body the
\* entities as they were when the grid was asked, the answer, and the pairs
\* handed on to the narrow phase.
RECURSIVE resolve_all(_, _, _, _)
resolve_all(entities, grid, seen, i) ==
    IF i >= Len(entities)
    THEN [entities |-> entities, grid |-> grid, seen |-> seen, panic |-> FALSE,
          queries |-> << >>]
    ELSE With(i + 1, LAMBDA i1 :
         IF ~entities[i1].body.some THEN resolve_all(entities, grid, seen, i1)
         ELSE With(query(grid, entities[i1].body.x, entities[i1].body.y,
                         entities[i1].body.radius, seen), LAMBDA q :
              With(resolve_nearby(entities, i, q.results, 1), LAMBDA r :
              With([i |-> i, entities |-> entities, nearby |-> q.results,
                    pairs |-> r.pairs], LAMBDA met :
                 IF r.panic
                 THEN [entities |-> r.entities, grid |-> q.grid, seen |-> q.seen_external,
                       panic |-> TRUE, queries |-> <<met>>]
                 ELSE With(resolve_all(r.entities, q.grid, q.seen_external, i1), LAMBDA rest :
                         [rest EXCEPT !.queries = <<met>> \o @])))))

\* World::update without its clear(): the grid keeps the entries of the step before
update_without_clear(world, delta_time, hash_key) ==
    With([k \in DOMAIN world.entities |->
            IF world.entities[k].body.some
            THEN [world.entities[k] EXCEPT
                    !.body = integrate(world.entities[k].body, delta_time,
                                       world.width, world.height)]
            ELSE world.entities[k]], LAMBDA moved :
    With(insert_all(world.spatial_grid, moved, 1), LAMBDA grid1 :
    With(resolve_all(moved, grid1, [key |-> hash_key, elems |-> {}], 0), LAMBDA r :
        [world |-> [world EXCEPT !.entities = r.entities, !.spatial_grid = r.grid],
         panic |-> r.panic, queries |-> r.queries])))

\* World::update with the AHashSet it creates keyed by hash_key: [world, panic, queries]
World_update(world, delta_time, hash_key) ==
    With([k \in DOMAIN world.entities |->
            IF world.entities[k].body.some
            THEN [world.entities[k] EXCEPT
                    !.body = integrate(world.entities[k].body, delta_time,
                                       world.width, world.height)]
            ELSE world.entities[k]], LAMBDA moved :
    With(clear(world.spatial_grid), LAMBDA grid0 :
    With(insert_all(grid0, moved, 1), LAMBDA grid1 :
    With(resolve_all(moved, grid1, [key |-> hash_key, elems |-> {}], 0), LAMBDA r :
        [world |-> [world EXCEPT !.entities = r.entities, !.spatial_grid = r.grid],
         panic |-> r.panic, queries |-> r.queries]))))

World_clone(world) ==
    [entities |-> world.entities, width |-> world.width, height |-> world.height,
     spatial_grid |-> SpatialGridNew(world.width, world.height, world.spatial_grid.cell_size)]

(***************************************************************************)
(* simulation.rs                                                           *)
(***************************************************************************)
\* cos and sin of the eight directions k * 45 degrees, in 1/NormalOne
Diag == RDiv(NormalOne * 181, 256)

CosTable == <<NormalOne, Diag, 0, -Diag, -NormalOne, -Diag, 0, Diag>>

SinTable == <<0, Diag, NormalOne, Diag, 0, -Diag, -NormalOne, -Diag>>

\* angle = next_f32 * tau, kept to the direction below it
Direction(f) == (f * Len(CosTable)) \div 65536 + 1

write_entities(entities) ==
    [k \in DOMAIN entities |->
        IF entities[k].body.some
        THEN [id |-> entities[k].id, has_body |-> 1,
              x |-> entities[k].body.x, y |-> entities[k].body.y,
              vx |-> entities[k].body.vx, vy |-> entities[k].body.vy,
              radius |-> entities[k].body.radius]
        ELSE [id |-> entities[k].id, has_body |-> 0,
              x |-> 0, y |-> 0, vx |-> 0, vy |-> 0, radius |-> 0]]

\* refresh_state_cache leaving the preview snapshot as it was
refresh_keeping_preview(s) ==
    [s EXCEPT !.state_cache = write_entities(s.world.entities)]

refresh_state_cache(s) ==
    [s EXCEPT !.preview_cache = << >>, !.state_cache = write_entities(s.world.entities)]

\* u32::MAX of next_entity_id, on the model's narrower word
IdMax == 7

Simulation_new ==
    refresh_state_cache(
        [world |-> World_new(WORLD_WIDTH, WORLD_HEIGHT, INITIAL_CELL_SIZE),
         rng |-> Lcg_new(LcgSeed),
         next_entity_id |-> 1,
         state_cache |-> << >>,
         preview_cache |-> << >>])

\* saturating_add(1)
next_entity_id(s) == [id |-> s.next_entity_id,
                      sim |-> [s EXCEPT !.next_entity_id = Min(@ + 1, IdMax)]]

\* count.min(10_000), on the model's scale
SpawnCap == 3

\* "for _ in 0..count": n entities still to spawn
RECURSIVE spawn_loop(_, _, _, _)
spawn_loop(s, n, radius, speed) ==
    IF n = 0 THEN s
    ELSE With(next_f32(s.rng), LAMBDA a :
         With(Direction(a.f), LAMBDA d :
         With(RDiv(speed * CosTable[d], NormalOne), LAMBDA vx :
         With(RDiv(speed * SinTable[d], NormalOne), LAMBDA vy :
         With(next_entity_id(s), LAMBDA nid :
         With([id |-> nid.id, body |-> SomeBody(0, 0, vx, vy, radius)], LAMBDA entity :
         With(add_entity(s.world, entity, a.rng), LAMBDA e :
         With([nid.sim EXCEPT !.world = e.world, !.rng = e.rng], LAMBDA s1 :
         With(n - 1, LAMBDA n1 : spawn_loop(s1, n1, radius, speed))))))))))

\* spawn_random_entities without count.min(10_000)
spawn_unclamped(s, count, radius, speed) ==
    IF count = 0 THEN s
    ELSE With(spawn_loop(s, count, radius, speed), LAMBDA s1 : refresh_state_cache(s1))

spawn_random_entities(s, count, radius, speed) ==
    IF count = 0 THEN s
    ELSE With(Min(count, SpawnCap), LAMBDA n :
         With(spawn_loop(s, n, radius, speed), LAMBDA s1 : refresh_state_cache(s1)))

\* remove_half_entities leaving the snapshots as they were
remove_half_stale(s) ==
    [s EXCEPT !.world = remove_entities(s.world)]

remove_half_entities(s) ==
    With([s EXCEPT !.world = remove_entities(s.world)], LAMBDA s1 : refresh_state_cache(s1))

\* [sim, ret, panic]: the assertion of SpatialGrid::set_cell_size fails on clamped
set_grid_cell_size(s, size) ==
    LET max_cell == Max(WORLD_WIDTH, WORLD_HEIGHT) IN
    With(FClamp(size, MIN_CELL_SIZE, max_cell), LAMBDA clamped :
        IF ~AssertCellSize(clamped)
        THEN [sim |-> s, ret |-> clamped, panic |-> TRUE]
        ELSE [sim |-> [s EXCEPT !.world.spatial_grid =
                          set_cell_size(s.world.spatial_grid, clamped.v)],
              ret |-> clamped, panic |-> FALSE])

adjust_grid_cell_size(s, delta) ==
    With(FAdd(s.world.spatial_grid.cell_size, delta), LAMBDA next : set_grid_cell_size(s, next))

scale_radius(s, factor) ==
    IF FLeZero(factor) \/ ~FIsFinite(factor) THEN s
    ELSE With([s EXCEPT !.world = scale_radii(s.world, factor.v)], LAMBDA s1 :
            refresh_state_cache(s1))

\* Simulation::update refreshing the caches whatever delta_time is
update_refreshing(s, delta_time, hash_key) ==
    IF FGtZero(delta_time)
    THEN With(World_update(s.world, delta_time.v, hash_key), LAMBDA u :
         With([s EXCEPT !.world = u.world], LAMBDA s1 :
            [sim |-> refresh_state_cache(s1), panic |-> u.panic, queries |-> u.queries]))
    ELSE [sim |-> refresh_state_cache(s), panic |-> FALSE, queries |-> << >>]

\* Simulation::update: [sim, panic, queries]
Simulation_update(s, delta_time, hash_key) ==
    IF FGtZero(delta_time)
    THEN With(World_update(s.world, delta_time.v, hash_key), LAMBDA u :
         With([s EXCEPT !.world = u.world], LAMBDA s1 :
            [sim |-> refresh_state_cache(s1), panic |-> u.panic, queries |-> u.queries]))
    ELSE [sim |-> s, panic |-> FALSE, queries |-> << >>]

\* build_preview stepping the live world instead of a clone of it
build_preview_in_place(s, delta_time, hash_key) ==
    With(IF FGtZero(delta_time)
         THEN World_update(s.world, delta_time.v, hash_key)
         ELSE [world |-> s.world, panic |-> FALSE], LAMBDA u :
        [sim |-> [s EXCEPT !.world = u.world,
                           !.preview_cache = write_entities(u.world.entities)],
         panic |-> u.panic])

\* build_preview writing out the clone without stepping it
build_preview_unstepped(s, delta_time, hash_key) ==
    With(World_clone(s.world), LAMBDA preview_world :
        [sim |-> [s EXCEPT !.preview_cache = write_entities(preview_world.entities)],
         panic |-> FALSE])

\* [sim, panic]
build_preview(s, delta_time, hash_key) ==
    With(World_clone(s.world), LAMBDA preview_world :
    With(IF FGtZero(delta_time)
         THEN World_update(preview_world, delta_time.v, hash_key)
         ELSE [world |-> preview_world, panic |-> FALSE], LAMBDA u :
        [sim |-> [s EXCEPT !.preview_cache = write_entities(u.world.entities)],
         panic |-> u.panic]))

(***************************************************************************)
(* The grid on its own: clear, insert, query and set_cell_size called in   *)
(* any order on a grid of GridDims.  live is the set of bodies inserted    *)
(* since the last clear() or set_cell_size(); last is the last call.       *)
(***************************************************************************)
GridDims == [width |-> 6, height |-> 4]

GridCellSizes == {2, 3}

GridIndices == {0, 1}

\* bodies handed to insert: inside one cell, across cells, outside the rectangle
GridBodies == {[x |-> 1, y |-> 1, radius |-> 1], [x |-> 4, y |-> 3, radius |-> 2],
               [x |-> -2, y |-> 5, radius |-> 2]}

\* circles handed to the query action
GridQueries == {[x |-> 2, y |-> 2, radius |-> 1], [x |-> 7, y |-> 4, radius |-> 2],
                [x |-> -1, y |-> 3, radius |-> 1]}

NoCall == [op |-> "none", arg |-> << >>, ret |-> << >>]

NoSeen == [key |-> 0, elems |-> {}]

\* the grid as constructed, after k clear() and k query() calls on it
GridStart(stamp) ==
    [SpatialGridNew(GridDims.width, GridDims.height, 2) EXCEPT !.stamp = stamp, !.seen_stamp = stamp]

GInit ==
    /\ g \in {GridStart(1), GridStart(StampWrap - 1)}
    /\ live = {}
    /\ last = NoCall
    /\ nops = 0
    /\ sim = Simulation_new
    /\ panicked = FALSE
    /\ idle = FALSE

GClear ==
    /\ nops < MaxGridOps
    /\ g' = clear(g)
    /\ live' = {}
    /\ last' = [op |-> "clear", arg |-> << >>, ret |-> << >>]
    /\ nops' = nops + 1
    /\ UNCHANGED <<sim, panicked, idle>>

GInsert ==
    /\ nops < MaxGridOps
    /\ \E index \in GridIndices, b \in GridBodies :
          /\ g' = insert(g, index, b.x, b.y, b.radius)
          /\ live' = live \cup {[index |-> index, x |-> b.x, y |-> b.y, radius |-> b.radius]}
          /\ last' = [op |-> "insert",
                      arg |-> [index |-> index, x |-> b.x, y |-> b.y, radius |-> b.radius],
                      ret |-> << >>]
    /\ nops' = nops + 1
    /\ UNCHANGED <<sim, panicked, idle>>

GQuery ==
    /\ nops < MaxGridOps
    /\ \E c \in GridQueries :
          \E q \in {query(g, c.x, c.y, c.radius, NoSeen)} :
          /\ g' = q.grid
          /\ last' = [op |-> "query", arg |-> c, ret |-> q.results]
    /\ nops' = nops + 1
    /\ UNCHANGED <<live, sim, panicked, idle>>

GSetCellSize ==
    /\ nops < MaxGridOps
    /\ \E cs \in GridCellSizes :
          /\ AssertCellSize(Num(cs))
          /\ g' = set_cell_size(g, cs)
          /\ last' = [op |-> "set_cell_size", arg |-> cs, ret |-> << >>]
    /\ live' = {}
    /\ nops' = nops + 1
    /\ UNCHANGED <<sim, panicked, idle>>

GNext == GClear \/ GInsert \/ GQuery \/ GSetCellSize

SpecGrid == GInit /\ [][GNext]_vars

(***************************************************************************)
(* Properties of the grid, under SpecGrid.                                 *)
(***************************************************************************)
\* the circles b and c intersect
Intersecting(b, c) ==
    (b.x - c.x) * (b.x - c.x) + (b.y - c.y) * (b.y - c.y)
        < (b.radius + c.radius) * (b.radius + c.radius)

\* the cells a circle is registered in, or read from
CellsOf(grid, c) == SeqRange(RangeCells(grid, CellRange(grid, c.x, c.y, c.radius)))

\* circles a query is tried with in every state, beside the ones the query action takes
GridProbes ==
    GridQueries \cup GridBodies \cup
        {[x |-> 5, y |-> 1, radius |-> 1], [x |-> 3, y |-> 6, radius |-> 2],
         [x |-> -3, y |-> -3, radius |-> 3], [x |-> 9, y |-> -1, radius |-> 4]}

\* C1: whatever was inserted since the last clear() (or set_cell_size()), a query
\* with circle c returns the index of every inserted body whose circle intersects
\* c, inside the rectangle and outside it; this of every circle of GridProbes in
\* every state, and of the query that was last made.
C1_QueryComplete ==
    /\ \A c \in GridProbes :
          \E q \in {query(g, c.x, c.y, c.radius, NoSeen)} :
             \A b \in live : Intersecting(b, c) => b.index \in SeqRange(q.results)
    /\ last.op = "query" =>
          \A b \in live : Intersecting(b, last.arg) => b.index \in SeqRange(last.ret)

\* a query outside the rectangle has returned a body that lies across its border
C1_Witness ==
    /\ last.op = "query"
    /\ last.arg.x < 0
    /\ \E b \in live : /\ b.x - b.radius < 0
                        /\ b.y + b.radius > GridDims.height
                        /\ Intersecting(b, last.arg)
                        /\ b.index \in SeqRange(last.ret)

\* every index a query with circle c returns was inserted, since the last clear()
\* or set_cell_size(), into a cell the query reads
QuerySound(c, results) ==
    \A i \in SeqRange(results) :
        \E b \in live : b.index = i /\ CellsOf(g, b) \cap CellsOf(g, c) # {}

QueriesSound ==
    /\ \A c \in GridProbes :
          \E q \in {query(g, c.x, c.y, c.radius, NoSeen)} : QuerySound(c, q.results)
    /\ last.op = "query" => QuerySound(last.arg, last.ret)

\* C10 as claimed: clear() advances the stamp by one and leaves everything else,
\* the cell storage included, as it was; and every query returns only indices
\* inserted since the last clear() or set_cell_size().
C10_ClearOnlyAdvancesStamp ==
    /\ []QueriesSound
    /\ [][last'.op = "clear" => g' = [g EXCEPT !.stamp = g.stamp + 1]]_vars

\* C10 as amended: clear() advances the stamp by one and leaves the cell storage
\* as it was, except when the stamp wraps around: then the stamp restarts at 1
\* and every cell is emptied and restamped 0.  In both cases every query returns
\* only indices inserted since the last clear() or set_cell_size().
C10_LazyClear ==
    /\ []QueriesSound
    /\ [][last'.op = "clear" =>
            IF (g.stamp + 1) % StampWrap = 0
            THEN /\ g' = [g EXCEPT !.stamp = 1, !.cells = << >>]
                 /\ \A idx \in 0..(g'.cols * g'.rows - 1) : CellAt(g', idx) = EmptyCell
            ELSE g' = [g EXCEPT !.stamp = g.stamp + 1]]_vars

\* a query has read a cell that still stores items of an earlier epoch, returned
\* none of them, and returned what was inserted since
C10_Witness ==
    /\ last.op = "query"
    /\ last.ret # << >>
    /\ \E idx \in CellsOf(g, last.arg) :
          /\ CellAt(g, idx).stamp # g.stamp
          /\ \E k \in DOMAIN CellAt(g, idx).items :
                CellAt(g, idx).items[k] \notin SeqRange(last.ret)

(***************************************************************************)
(* The simulation: the exported calls in any order.  last is the last call *)
(* with its arguments and result; nops counts the calls that changed the   *)
(* simulation.  A call that left the simulation as it was (idle) is the    *)
(* last call of its behaviour: the calls that can follow it are the calls  *)
(* that can follow the state it was made in, and are explored from there.  *)
(***************************************************************************)
\* the bodies of simulation s
Bodies(s) == {s.world.entities[k].body : k \in {j \in DOMAIN s.world.entities :
                                                    s.world.entities[j].body.some}}

\* state-changing calls per behaviour
MaxOps == 3

\* entities a behaviour may hold
MaxEntities == 4

\* radius a body may be scaled to
MaxRadius == 300

SpawnCounts == {0, 1, SpawnCap + 1}

SpawnRadii == {60}

SpawnSpeeds == {200}

CellSizeArgs == {Num(-5), Num(1000000000), NaN, PosInf}

CellSizeDeltas == {Num(8), NaN}

ScaleArgs == {Num(5), Num(0), Num(-2), NaN, PosInf, NegInf}

DeltaTimes == {Num(1), Num(0), Num(-1), NaN}

HashKeys == {0, 1}

Init ==
    /\ sim = Simulation_new
    /\ panicked = FALSE
    /\ last = NoCall
    /\ nops = 0
    /\ g = GridStart(1)
    /\ live = {}
    /\ idle = FALSE

\* the frame of a call that took the simulation to s
Called(s, panic, call) ==
    /\ sim' = s
    /\ panicked' = panic
    /\ last' = call
    /\ nops' = IF s # sim \/ panic THEN nops + 1 ELSE nops
    /\ idle' = (s = sim /\ ~panic)
    /\ UNCHANGED <<g, live>>

Enabled == ~panicked /\ ~idle /\ nops < MaxOps

Spawn ==
    /\ Enabled
    /\ \E count \in SpawnCounts, radius \in SpawnRadii, speed \in SpawnSpeeds :
          /\ Len(sim.world.entities) + Min(count, SpawnCap) <= MaxEntities
          /\ \E s \in {spawn_random_entities(sim, count, radius, speed)} :
                Called(s, FALSE,
                       [op |-> "spawn",
                        arg |-> [count |-> count, radius |-> radius, speed |-> speed],
                        ret |-> << >>])

RemoveHalf ==
    /\ Enabled
    /\ \E s \in {remove_half_entities(sim)} :
          Called(s, FALSE, [op |-> "remove_half", arg |-> << >>, ret |-> << >>])

SetCellSize ==
    /\ Enabled
    /\ \E size \in CellSizeArgs :
          \E r \in {set_grid_cell_size(sim, size)} :
          Called(r.sim, r.panic, [op |-> "set_cell_size", arg |-> size, ret |-> r.ret])

AdjustCellSize ==
    /\ Enabled
    /\ \E delta \in CellSizeDeltas :
          \E r \in {adjust_grid_cell_size(sim, delta)} :
          Called(r.sim, r.panic, [op |-> "adjust_cell_size", arg |-> delta, ret |-> r.ret])

ScaleRadius ==
    /\ Enabled
    /\ \E factor \in ScaleArgs :
          /\ \A b \in Bodies(sim) : factor.k = "num" => b.radius * factor.v <= MaxRadius
          /\ \E s \in {scale_radius(sim, factor)} :
                Called(s, FALSE, [op |-> "scale_radius", arg |-> factor, ret |-> << >>])

Step ==
    /\ Enabled
    /\ \E delta_time \in DeltaTimes, hash_key \in HashKeys :
          \E r \in {Simulation_update(sim, delta_time, hash_key)} :
          Called(r.sim, r.panic, [op |-> "step", arg |-> delta_time, ret |-> r.queries])

Preview ==
    /\ Enabled
    /\ \E delta_time \in DeltaTimes, hash_key \in HashKeys :
          \E r \in {build_preview(sim, delta_time, hash_key)} :
          Called(r.sim, r.panic, [op |-> "preview", arg |-> delta_time, ret |-> << >>])

Next == Spawn \/ RemoveHalf \/ SetCellSize \/ AdjustCellSize \/ ScaleRadius \/ Step \/ Preview

Spec == Init /\ [][Next]_vars

(***************************************************************************)
(* Properties of the simulation, under Spec.                               *)
(***************************************************************************)
\* C2: after a step with delta_time > 0 every body lies within the walls:
\* radius <= x <= width - radius and radius <= y <= height - radius.
C2_WallContainment ==
    (last.op = "step" /\ last.arg.k = "num" /\ last.arg.v > 0) =>
        \A b \in Bodies(sim) :
            /\ b.radius <= b.x /\ b.x <= sim.world.width - b.radius
            /\ b.radius <= b.y /\ b.y <= sim.world.height - b.radius

\* C3: a preview changes nothing of the simulation but the preview snapshot (the
\* entities, the grid, the RNG, the next entity id and the state snapshot stay);
\* a preview that follows a preview with the same delta_time yields the same
\* preview snapshot; and a step that follows a preview yields what it yields
\* from the simulation without that preview snapshot.
C3_PreviewFrame ==
    [][/\ last'.op = "preview" =>
            /\ sim' = [sim EXCEPT !.preview_cache = sim'.preview_cache]
            /\ (last.op = "preview" /\ last.arg = last'.arg) =>
                    sim'.preview_cache = sim.preview_cache
       /\ (last.op = "preview" /\ last'.op = "step") =>
            \A k \in HashKeys :
               \E instead \in {Simulation_update([sim EXCEPT !.preview_cache = << >>],
                                                 last'.arg, k).sim} :
                  /\ sim'.world = instead.world
                  /\ sim'.rng = instead.rng
                  /\ sim'.next_entity_id = instead.next_entity_id
                  /\ sim'.state_cache = instead.state_cache]_vars

\* a preview has shown bodies elsewhere than the state snapshot has them
C3_Witness ==
    /\ last.op = "preview"
    /\ last.arg = Num(1)
    /\ sim.preview_cache # << >>
    /\ sim.preview_cache # sim.state_cache
    /\ sim.state_cache = write_entities(sim.world.entities)

\* C4: the preview snapshot that preview(delta_time), delta_time > 0, produces
\* in a state is the state snapshot that step(delta_time) produces from that
\* state, whatever the key of the step's hash set; neither call fails.
C4_PreviewEqualsStep ==
    [][(last'.op = "preview" /\ last'.arg.k = "num" /\ last'.arg.v > 0) =>
          \A k \in HashKeys :
             \E u \in {Simulation_update(sim, last'.arg, k)} :
                sim'.preview_cache = u.sim.state_cache /\ ~u.panic /\ ~panicked']_vars

\* a preview of moving bodies was made while the live grid had an advanced stamp
\* and cells filled by an earlier step
C4_Witness ==
    /\ last.op = "preview"
    /\ last.arg = Num(1)
    /\ Len(sim.preview_cache) >= 2
    /\ sim.preview_cache # sim.state_cache
    /\ sim.world.spatial_grid.stamp > 1
    /\ \E idx \in DOMAIN sim.world.spatial_grid.cells :
          sim.world.spatial_grid.cells[idx].items # << >>

C6_SpawnClamp ==
    [][last'.op = "spawn" =>
        LET old == sim.world.entities
            new == sim'.world.entities
        IN  /\ Len(new) = Len(old) + Min(last'.arg.count, SpawnCap)
            /\ SubSeq(new, 1, Len(old)) = old
            /\ \A k \in (Len(old) + 1)..Len(new) :
                  new[k].body.some /\ new[k].body.radius = last'.arg.radius
            /\ last'.arg.count = 0 => new = old]_vars

\* a spawn of more than SpawnCap entities was made on a world that had entities
C6_Witness ==
    /\ last.op = "spawn"
    /\ last.arg.count > SpawnCap
    /\ Len(sim.world.entities) > SpawnCap
    /\ Len(sim.state_cache) = Len(sim.world.entities)

\* s clamped into [MIN_CELL_SIZE, max(width, height)]
ClampedCellSize(v) == Max(MIN_CELL_SIZE, Min(v, Max(WORLD_WIDTH, WORLD_HEIGHT)))

\* C7: set_grid_cell_size(s) returns s clamped into [MIN_CELL_SIZE, max(width,
\* height)], a number of that interval, and the grid's cell size after the call
\* is the value returned; adjust_grid_cell_size(d) does what
\* set_grid_cell_size(current + d) does.
C7_CellSizeClamp ==
    /\ [](last.op \in {"set_cell_size", "adjust_cell_size"} =>
            /\ last.ret.k = "num"
            /\ MIN_CELL_SIZE <= last.ret.v
            /\ last.ret.v <= Max(WORLD_WIDTH, WORLD_HEIGHT)
            /\ last.arg.k = "num" /\ last.op = "set_cell_size" => last.ret.v = ClampedCellSize(last.arg.v)
            /\ sim.world.spatial_grid.cell_size = last.ret.v)
    /\ [][last'.op = "adjust_cell_size" /\ last'.arg.k = "num" =>
            last'.ret = Num(ClampedCellSize(sim.world.spatial_grid.cell_size + last'.arg.v))]_vars

\* C8: no call of set_grid_cell_size or adjust_grid_cell_size, whatever its
\* argument, fails the grid's assertion that the cell size is positive.
C8_CellSizeNeverFatal ==
    last.op \in {"set_cell_size", "adjust_cell_size"} => ~panicked

\* C9: a step with delta_time <= 0 or NaN, a scale_radius with a factor <= 0 or
\* not finite and a spawn of 0 entities leave the whole simulation (entities,
\* grid, RNG, next entity id, state snapshot, preview snapshot) as it was.
C9_NoOpInputs ==
    [][(\/ last'.op = "step" /\ (last'.arg.k = "nan" \/ last'.arg.v <= 0)
        \/ last'.op = "scale_radius" /\ (last'.arg.k # "num" \/ last'.arg.v <= 0)
        \/ last'.op = "spawn" /\ last'.arg.count = 0)
       => sim' = sim /\ ~panicked']_vars

\* a step with a NaN delta_time was made while a preview snapshot was held
C9_Witness ==
    /\ last.op = "step"
    /\ last.arg = NaN
    /\ sim.preview_cache # << >>
    /\ sim.state_cache # << >>

\* the record the snapshot is to hold for entity e
RecordOf(e, rec) ==
    /\ rec.id = e.id
    /\ IF e.body.some
       THEN /\ rec.has_body = 1
            /\ rec.x = e.body.x /\ rec.y = e.body.y
            /\ rec.vx = e.body.vx /\ rec.vy = e.body.vy
            /\ rec.radius = e.body.radius
       ELSE /\ rec.has_body = 0
            /\ rec.x = 0 /\ rec.y = 0 /\ rec.vx = 0 /\ rec.vy = 0 /\ rec.radius = 0

\* the entities with the body of every entity whose place is in `without` taken away
Bodiless(entities, without) ==
    [k \in DOMAIN entities |->
        IF k \in without THEN [entities[k] EXCEPT !.body = NoBody] ELSE entities[k]]

\* C11: after every exported call the state snapshot holds one record per
\* entity, in the order of the entity collection, with the entity's id, with
\* has_body = 1 and the body's present fields; and what write_entities writes
\* for the same entities with some bodies taken away holds, for a bodiless
\* entity, its id, has_body = 0 and a zeroed body.
C11_SnapshotConsistent ==
    /\ Len(sim.state_cache) = Len(sim.world.entities)
    /\ \A k \in DOMAIN sim.world.entities :
          RecordOf(sim.world.entities[k], sim.state_cache[k])
    /\ \A without \in SUBSET (DOMAIN sim.world.entities) :
          \E es \in {Bodiless(sim.world.entities, without)} :
             \E out \in {write_entities(es)} :
                /\ Len(out) = Len(es)
                /\ \A k \in DOMAIN es : RecordOf(es[k], out[k])

\* remove-half was called after a step had moved the bodies, and entities remain
C11_Witness ==
    /\ last.op = "remove_half"
    /\ sim.world.entities # << >>
    /\ sim.world.spatial_grid.stamp > 1
    /\ Len(sim.state_cache) = Len(sim.world.entities)
    /\ \E k \in DOMAIN sim.state_cache :
          sim.state_cache[k].has_body = 1 /\ sim.state_cache[k].x # 0

(***************************************************************************)
(* Placement on its own: World::add_entity called on a world that starts   *)
(* empty, with the simulation's RNG.  last.arg holds the entity handed in  *)
(* and the RNG as it was before the call.                                  *)
(***************************************************************************)
\* add_entity calls per behaviour
MaxPlaceOps == 3

\* radii of the bodies handed to add_entity: small, middling, a third of the
\* height, and wider than the diagonal of the world (one such body leaves no
\* free place)
PlaceRadii == {5, 150, 400, 3000}

PlaceEntities ==
    {[id |-> 0, body |-> SomeBody(0, 0, 0, 0, radius)] : radius \in PlaceRadii}
        \cup {[id |-> 0, body |-> NoBody]}

AddEntity ==
    /\ nops < MaxPlaceOps
    /\ \E e \in PlaceEntities :
          \E entity \in {[e EXCEPT !.id = Len(sim.world.entities) + 1]} :
          \E r \in {add_entity(sim.world, entity, sim.rng)} :
             /\ sim' = [sim EXCEPT !.world = r.world, !.rng = r.rng]
             /\ last' = [op |-> "add_entity",
                         arg |-> [entity |-> entity, rng |-> sim.rng],
                         ret |-> << >>]
    /\ nops' = nops + 1
    /\ UNCHANGED <<panicked, g, live, idle>>

SpecPlace == Init /\ [][AddEntity]_vars

\* a circle of the given radius at candidate c overlaps a body of entities
Overlapping(c, radius, entities) ==
    \E k \in DOMAIN entities :
        /\ entities[k].body.some
        /\ (c.x - entities[k].body.x) * (c.x - entities[k].body.x)
             + (c.y - entities[k].body.y) * (c.y - entities[k].body.y)
           < (radius + entities[k].body.radius) * (radius + entities[k].body.radius)

\* the entity of a state that the last add_entity appended, and the ones before it
Appended == sim.world.entities[Len(sim.world.entities)]

Before == SubSeq(sim.world.entities, 1, Len(sim.world.entities) - 1)

\* C12: add_entity with a body appends exactly one entity, the entity handed in
\* with its body moved to a position inside the world rectangle (0 <= x <= width,
\* 0 <= y <= height), and leaves the RNG where it is after generating k
\* candidates, k <= PlacementAttempts + 1: no more than PlacementAttempts
\* candidates were tested, however many of them collide.
C12_PlacementTerminates ==
    [][(last'.op = "add_entity" /\ last'.arg.entity.body.some) =>
        \E cands \in {CandidateRun(sim.world, sim.rng, PlacementAttempts + 1)} :
        \E e \in {last'.arg.entity} :
            /\ Len(sim'.world.entities) = Len(sim.world.entities) + 1
            /\ SubSeq(sim'.world.entities, 1, Len(sim.world.entities)) = sim.world.entities
            /\ \E n \in {sim'.world.entities[Len(sim'.world.entities)]} :
                  /\ n = [e EXCEPT !.body.x = n.body.x, !.body.y = n.body.y]
                  /\ 0 <= n.body.x /\ n.body.x <= sim.world.width
                  /\ 0 <= n.body.y /\ n.body.y <= sim.world.height
            /\ \E k \in 1..(PlacementAttempts + 1) :
                  /\ sim'.rng = cands[k].rng
                  /\ \A j \in 1..(k - 1) :
                        j <= PlacementAttempts /\ Overlapping(cands[j], e.body.radius,
                                                              sim.world.entities)]_vars

\* a small body was added to a world that a body wider than the world covers:
\* it lies inside the rectangle, on top of that body
C12_Witness ==
    /\ last.op = "add_entity"
    /\ last.arg.entity.body.some
    /\ last.arg.entity.body.radius = 5
    /\ \E k \in DOMAIN Before : Before[k].body.some /\ Before[k].body.radius = 3000
    /\ Overlapping(Appended.body, 5, Before)
    /\ 0 <= Appended.body.x /\ Appended.body.x <= sim.world.width
    /\ 0 <= Appended.body.y /\ Appended.body.y <= sim.world.height

\* the candidates the last add_entity could generate: PlacementAttempts in its
\* loop and one more
LastCandidates == CandidateRun(sim.world, last.arg.rng, PlacementAttempts + 1)

\* C16 as claimed: when each of the PlacementAttempts candidates of the loop
\* overlaps an existing body, the new body is placed at the last of them.
C16_FallbackLastCandidate ==
    [][(last'.op = "add_entity" /\ last'.arg.entity.body.some) =>
        \E cands \in {CandidateRun(sim.world, sim.rng, PlacementAttempts + 1)} :
        \E n \in {sim'.world.entities[Len(sim'.world.entities)]} :
            (\A k \in 1..PlacementAttempts :
                Overlapping(cands[k], n.body.radius, sim.world.entities))
            => /\ n.body.x = cands[PlacementAttempts].x
               /\ n.body.y = cands[PlacementAttempts].y]_vars

\* C16 as amended: when each of the PlacementAttempts candidates of the loop
\* overlaps an existing body, one more candidate is generated and the new body
\* is placed at it without a test: its position is candidate
\* PlacementAttempts + 1, whether or not that one overlaps, and the RNG is left
\* as it is after 2 * (PlacementAttempts + 1) calls.
C16_FallbackFreshCandidate ==
    [][(last'.op = "add_entity" /\ last'.arg.entity.body.some) =>
        \E cands \in {CandidateRun(sim.world, sim.rng, PlacementAttempts + 1)} :
        \E n \in {sim'.world.entities[Len(sim'.world.entities)]} :
            (\A k \in 1..PlacementAttempts :
                Overlapping(cands[k], n.body.radius, sim.world.entities))
            => /\ n.body.x = cands[PlacementAttempts + 1].x
               /\ n.body.y = cands[PlacementAttempts + 1].y
               /\ n.body.radius = last'.arg.entity.body.radius
               /\ sim'.rng = cands[PlacementAttempts + 1].rng]_vars

\* an add_entity found all its PlacementAttempts candidates taken, and its
\* body lies at the candidate generated after them, which differs from the
\* last one tested
C16_Witness ==
    /\ last.op = "add_entity"
    /\ last.arg.entity.body.some
    /\ \E cands \in {LastCandidates} :
          /\ \A k \in 1..PlacementAttempts :
                Overlapping(cands[k], Appended.body.radius, Before)
          /\ Appended.body.x = cands[PlacementAttempts + 1].x
          /\ Appended.body.y = cands[PlacementAttempts + 1].y
          /\ cands[PlacementAttempts + 1].x # cands[PlacementAttempts].x

\* C17: when one of the PlacementAttempts candidates of the loop overlaps no
\* existing body (squared distance >= (r_new + r_existing)^2 for every body),
\* the new body is placed at the first such candidate, so it overlaps no
\* existing body, and the RNG is left as it is once that candidate is
\* generated: nothing is drawn after it.
C17_FirstFreeCandidate ==
    [][(last'.op = "add_entity" /\ last'.arg.entity.body.some) =>
        \E cands \in {CandidateRun(sim.world, sim.rng, PlacementAttempts)} :
        \E n \in {sim'.world.entities[Len(sim'.world.entities)]} :
            \A k \in 1..PlacementAttempts :
                (/\ ~Overlapping(cands[k], n.body.radius, sim.world.entities)
                 /\ \A j \in 1..(k - 1) :
                       Overlapping(cands[j], n.body.radius, sim.world.entities))
                => /\ n.body.x = cands[k].x
                   /\ n.body.y = cands[k].y
                   /\ ~Overlapping(n.body, n.body.radius, sim.world.entities)
                   /\ sim'.rng = cands[k].rng]_vars

\* an add_entity turned down its first candidates and took a later one, which
\* touches no body of the world
C17_Witness ==
    /\ last.op = "add_entity"
    /\ last.arg.entity.body.some
    /\ \E k \in DOMAIN Before : Before[k].body.some
    /\ \E cands \in {LastCandidates} :
          /\ Overlapping(cands[1], Appended.body.radius, Before)
          /\ Overlapping(cands[2], Appended.body.radius, Before)
          /\ \E k \in 3..PlacementAttempts :
                /\ Appended.body.x = cands[k].x /\ Appended.body.y = cands[k].y
                /\ sim.rng = cands[k].rng
          /\ ~Overlapping(Appended.body, Appended.body.radius, Before)

(***************************************************************************)
(* Properties of the step's second loop, under Spec.  After a step,        *)
(* last.ret lists what the loop met: for each entity i with a body, in     *)
(* order, the entities as they were when the grid was asked about i, the   *)
(* grid's answer (nearby) and the pairs handed to the narrow phase.        *)
(***************************************************************************)
\* C13: in one step no index occurs twice in the grid's answer for an entity,
\* every pair <<i, j>> handed to the narrow phase while entity i is processed has
\* j > i (so no entity is paired with itself), and no unordered pair {i, j} is
\* handed to the narrow phase twice.
C13_PairsOnce ==
    last.op = "step" =>
        /\ \A q \in DOMAIN last.ret :
              /\ \A m, n \in DOMAIN last.ret[q].nearby :
                    m # n => last.ret[q].nearby[m] # last.ret[q].nearby[n]
              /\ \A p \in DOMAIN last.ret[q].pairs :
                    /\ last.ret[q].pairs[p][1] = last.ret[q].i
                    /\ last.ret[q].pairs[p][2] > last.ret[q].i
        /\ \A q1, q2 \in DOMAIN last.ret :
              \A p1 \in DOMAIN last.ret[q1].pairs, p2 \in DOMAIN last.ret[q2].pairs :
                 <<q1, p1>> # <<q2, p2>> =>
                    {last.ret[q1].pairs[p1][1], last.ret[q1].pairs[p1][2]}
                        # {last.ret[q2].pairs[p2][1], last.ret[q2].pairs[p2][2]}

\* the cells of grid that hold, for the present stamp, both index i and index j
SharedCells(grid, i, j) ==
    {idx \in DOMAIN grid.cells :
        /\ grid.cells[idx].stamp = grid.stamp
        /\ i \in SeqRange(grid.cells[idx].items)
        /\ j \in SeqRange(grid.cells[idx].items)}

\* a step handed to the narrow phase a pair of bodies registered together in
\* several cells, and its grid answers held the entity asked about as well
C13_Witness ==
    /\ last.op = "step"
    /\ \E q \in DOMAIN last.ret :
          /\ last.ret[q].i \in SeqRange(last.ret[q].nearby)
          /\ \E p \in DOMAIN last.ret[q].pairs :
                Cardinality(SharedCells(sim.world.spatial_grid, last.ret[q].pairs[p][1],
                                        last.ret[q].pairs[p][2])) >= 2


(***************************************************************************)
(* Longer histories of spawn, remove-half, set-cell-size, scale-radius and  *)
(* step, with ordinary arguments and larger bodies.                        *)
(***************************************************************************)
\* state-changing calls per behaviour
MaxStepOps == 4

StepSpawnCounts == {1, SpawnCap}

StepSpawnRadii == {160}

StepSpawnSpeeds == {100}

StepDeltaTimes == {Num(2)}

StepCellSizes == {Num(100)}

StepScaleArgs == {Num(2)}

\* radius a body may be scaled to
MaxStepRadius == 320

StepEnabled == ~panicked /\ ~idle /\ nops < MaxStepOps

StepSpawn ==
    /\ StepEnabled
    /\ \E count \in StepSpawnCounts, radius \in StepSpawnRadii, speed \in StepSpawnSpeeds :
          /\ Len(sim.world.entities) + Min(count, SpawnCap) <= MaxEntities
          /\ \E s \in {spawn_random_entities(sim, count, radius, speed)} :
                Called(s, FALSE,
                       [op |-> "spawn",
                        arg |-> [count |-> count, radius |-> radius, speed |-> speed],
                        ret |-> << >>])

StepRemoveHalf ==
    /\ StepEnabled
    /\ \E s \in {remove_half_entities(sim)} :
          Called(s, FALSE, [op |-> "remove_half", arg |-> << >>, ret |-> << >>])

StepSetCellSize ==
    /\ StepEnabled
    /\ \E size \in StepCellSizes :
          \E r \in {set_grid_cell_size(sim, size)} :
          Called(r.sim, r.panic, [op |-> "set_cell_size", arg |-> size, ret |-> r.ret])

StepScaleRadius ==
    /\ StepEnabled
    /\ \E factor \in StepScaleArgs :
          /\ \A b \in Bodies(sim) : b.radius * factor.v <= MaxStepRadius
          /\ \E s \in {scale_radius(sim, factor)} :
                Called(s, FALSE, [op |-> "scale_radius", arg |-> factor, ret |-> << >>])

StepUpdate ==
    /\ StepEnabled
    /\ \E delta_time \in StepDeltaTimes, hash_key \in HashKeys :
          \E r \in {Simulation_update(sim, delta_time, hash_key)} :
          Called(r.sim, r.panic, [op |-> "step", arg |-> delta_time, ret |-> r.queries])

StepNext ==
    StepSpawn \/ StepRemoveHalf \/ StepSetCellSize \/ StepScaleRadius \/ StepUpdate

SpecStep == Init /\ [][StepNext]_vars

(***************************************************************************)
(* Properties of the step's second loop, under SpecStep.                   *)
(***************************************************************************)
\* C14: when the step's second loop asks the grid about body i, the answer
\* holds every j > i whose body overlaps body i at that moment, the bodies
\* moved by an earlier pair's positional correction included.
C14_NoFalseNegatives ==
    last.op = "step" =>
        \A q \in DOMAIN last.ret :
            \E es \in {last.ret[q].entities} :
            \E i \in {last.ret[q].i} :
                \A j \in (i + 1)..(Len(es) - 1) :
                    (/\ es[i + 1].body.some /\ es[j + 1].body.some
                     /\ Intersecting(es[i + 1].body, es[j + 1].body))
                    => j \in SeqRange(last.ret[q].nearby)

\* C20: whatever calls came before a step (spawn, remove-half, scale-radius,
\* set cell size, steps), every index j the grid hands to the step's second loop is an index
\* of the entity collection (j < number of entities) of an entity with a body
\* that this step's first loop registered, and the step does not fail on an
\* index out of range.
C20_CandidatesValid ==
    last.op = "step" =>
        /\ ~panicked
        /\ \A q \in DOMAIN last.ret :
              \A m \in DOMAIN last.ret[q].nearby :
                 \E j \in {last.ret[q].nearby[m]} :
                    /\ j < Len(sim.world.entities)
                    /\ sim.world.entities[j + 1].body.some
                    /\ \E idx \in DOMAIN sim.world.spatial_grid.cells :
                          /\ sim.world.spatial_grid.cells[idx].stamp
                                = sim.world.spatial_grid.stamp
                          /\ j \in SeqRange(sim.world.spatial_grid.cells[idx].items)

\* a step asked the grid about a body while a cell still held, under the stamp
\* of the step before, the index of an entity that remove-half has cut off
C20_Witness ==
    /\ last.op = "step"
    /\ ~panicked
    /\ last.ret # << >>
    /\ \E idx \in DOMAIN sim.world.spatial_grid.cells :
          /\ sim.world.spatial_grid.cells[idx].stamp = sim.world.spatial_grid.stamp - 1
          /\ \E k \in DOMAIN sim.world.spatial_grid.cells[idx].items :
                sim.world.spatial_grid.cells[idx].items[k] >= Len(sim.world.entities)

(***************************************************************************)
(* The narrow phase on its own: the pair resolution of World::update       *)
(* applied to one pair of bodies A and B.                                  *)
(***************************************************************************)
PairRadii == {40, 60}

PairVelocitiesA == {<<100, 0>>, <<0, 0>>, <<-50, 30>>}

PairVelocitiesB == {<<0, 0>>, <<-100, 0>>, <<60, -60>>}

\* B's centre relative to A's: on top of it, inside, tangent, outside
PairOffsetsX == {-70, 0, 30, 80, 120}

PairOffsetsY == {-40, 0, 50}

PairBodiesA ==
    {SomeBody(1000, 600, v[1], v[2], radius) : v \in PairVelocitiesA, radius \in PairRadii}

PairBodiesB ==
    {SomeBody(1000 + dx, 600 + dy, v[1], v[2], 40) :
        dx \in PairOffsetsX, dy \in PairOffsetsY, v \in PairVelocitiesB}

Resolve ==
    /\ nops = 0
    /\ \E body_a \in PairBodiesA, body_b \in PairBodiesB :
          \E r \in {resolve(body_a, body_b)} :
             last' = [op |-> "resolve", arg |-> [a |-> body_a, b |-> body_b], ret |-> r]
    /\ nops' = 1
    /\ UNCHANGED <<sim, panicked, g, live, idle>>

SpecPair == Init /\ [][Resolve]_vars

\* C15 for the pair (a, b) resolved into (a1, b1).  d is B - A, m the sum of the
\* radii, dot the relative velocity along d: vn is dot / |d|, so vn > 0 iff
\* dot > 0.  s is the displacement of B.
PairResolved(a, b, a1, b1) ==
    LET dx == b.x - a.x
        dy == b.y - a.y
        d2 == dx * dx + dy * dy
        m == a.radius + b.radius
        dot == (a.vx - b.vx) * dx + (a.vy - b.vy) * dy
        sx == b1.x - b.x
        sy == b1.y - b.y
        floor == Isqrt(d2)
    IN  IF d2 = 0 \/ d2 >= m * m
        THEN a1 = a /\ b1 = b
        ELSE \* A and B move by opposite displacements, nothing else of a body changes
             /\ a1 = [a EXCEPT !.x = a.x - sx, !.y = a.y - sy, !.vx = a1.vx, !.vy = a1.vy]
             /\ b1 = [b EXCEPT !.x = b.x + sx, !.y = b.y + sy, !.vx = b1.vx, !.vy = b1.vy]
             \* along the centre line, away from A, to within the rounding of a position
             /\ sx * dx + sy * dy > 0
             /\ Abs(sx * dy - sy * dx) <= Abs(dx) + Abs(dy)
             \* by overlap / 2 = (m - |d|) / 2, to within the rounding of a position
             /\ 4 * (sx * sx + sy * sy) <= (m - floor + 2) * (m - floor + 2)
             /\ 4 * (sx * sx + sy * sy) >= Max(m - floor - 3, 0) * Max(m - floor - 3, 0)
             \* velocities change iff the bodies are closing, by opposite impulses
             /\ a1.vx + b1.vx = a.vx + b.vx
             /\ a1.vy + b1.vy = a.vy + b.vy
             /\ dot <= 0 => a1.vx = a.vx /\ a1.vy = a.vy
             /\ dot > 0 => <<a1.vx, a1.vy>> # <<a.vx, a.vy>>

AllCellsEmpty(grid) == \A idx \in 0..(grid.cols * grid.rows - 1) : CellAt(grid, idx) = EmptyCell

\* the query-deduplication state is as constructed
SeenCleared(grid) == grid.seen_marks = << >> /\ grid.seen_stamp = 1

\* C18: a grid as constructed, and the grid after any set_cell_size call,
\* whether the call changed the column and row counts or not, has stamp 1 and
\* a cleared query-deduplication state.
C18_StampResetAlways ==
    /\ \A cs \in GridCellSizes :
          \E fresh \in {SpatialGridNew(GridDims.width, GridDims.height, cs)} :
             fresh.stamp = 1 /\ SeenCleared(fresh)
    /\ last.op = "set_cell_size" => g.stamp = 1 /\ SeenCleared(g)

\* C19: clear() called with the stamp at its maximum leaves the stamp at 1 and
\* every cell with stamp 0 and no items; the stamp is 0 in no reachable state;
\* and in the states that follow the wrap-around a query returns only indices
\* inserted since it.
C19_StampWrap ==
    /\ [](g.stamp # 0 /\ g.stamp < StampWrap)
    /\ [][(last'.op = "clear" /\ g.stamp = StampWrap - 1) =>
            g'.stamp = 1 /\ AllCellsEmpty(g')]_vars
    /\ []((g.stamp = 1 /\ g.seen_stamp = StampWrap - 1) => QueriesSound)

\* the stamp has wrapped (the grid started at the maximum, no query and no
\* set_cell_size was made, the stamp is 1) between two inserts, and the grid
\* holds the body inserted after the wrap alone
C19_Witness ==
    /\ last.op = "insert"
    /\ nops >= 3
    /\ g.stamp = 1
    /\ g.seen_stamp = StampWrap - 1
    /\ Cardinality(live) = 1
    /\ \E idx \in DOMAIN g.cells : g.cells[idx].stamp = 1
    /\ \A idx \in DOMAIN g.cells : Len(g.cells[idx].items) <= 1

(***************************************************************************)
(* Properties of the query's cell range, under SpecGrid.                   *)
(***************************************************************************)
\* the column/row range of the bounding square of c, widened by one cell in each
\* direction and clamped to the grid
RingRange(grid, c) ==
    [min_col |-> clamp_index(to_col(grid, c.x - c.radius) - 1, grid.cols),
     max_col |-> clamp_index(to_col(grid, c.x + c.radius) + 1, grid.cols),
     min_row |-> clamp_index(to_row(grid, c.y - c.radius) - 1, grid.rows),
     max_row |-> clamp_index(to_row(grid, c.y + c.radius) + 1, grid.rows)]

RingCells(grid, c) == SeqRange(RangeCells(grid, RingRange(grid, c)))

\* C21: a query returns the index of every body inserted since the last clear()
\* (or set_cell_size()) into a cell of the query's column/row range widened by
\* one cell in each direction and clamped to the grid: a body registered only
\* in a cell next to the query's own range is returned too.
C21_QueryRing ==
    last.op = "query" =>
        \A b \in live : CellsOf(g, b) \cap RingCells(g, last.arg) # {} =>
            b.index \in SeqRange(last.ret)

(***************************************************************************)
(* The first loop of World::update on its own: integration and wall        *)
(* reflection applied to one body of the world of the simulation.          *)
(***************************************************************************)
\* radii: small, a body that reaches a wall from well inside, a body wider than
\* the world is high, a body wider than the world is wide
WallRadii == {5, 200, 700, 1300}

WallXs == {3, 50, 1250, 2450, 2497}

WallYs == {40, 650, 1197}

WallVxs == {-100, 0, 100}

WallVys == {-100, 100}

WallDeltaTimes == {1}

WallBodies ==
    {SomeBody(x, y, vx, vy, radius) :
        x \in WallXs, y \in WallYs, vx \in WallVxs, vy \in WallVys, radius \in WallRadii}

Integrate ==
    /\ nops = 0
    /\ \E body \in WallBodies, delta_time \in WallDeltaTimes :
          \E r \in {integrate(body, delta_time, WORLD_WIDTH, WORLD_HEIGHT)} :
             last' = [op |-> "integrate",
                      arg |-> [body |-> body, delta_time |-> delta_time], ret |-> r]
    /\ nops' = 1
    /\ UNCHANGED <<sim, panicked, g, live, idle>>

SpecWall == Init /\ [][Integrate]_vars

\* one axis of a body: p0, v0 the position and velocity before the step, p1, v1
\* after the first loop, bound the world's extent on the axis.  p is the
\* position after integration.  Each wall crossed decides the axis by itself.
AxisReflected(p0, v0, p1, v1, radius, delta_time, bound) ==
    LET p == p0 + v0 * delta_time IN
    /\ p - radius < 0 => p1 = radius /\ v1 = Abs(v0)
    /\ p + radius > bound => p1 = bound - radius /\ v1 = -Abs(v0)
    /\ (p - radius >= 0 /\ p + radius <= bound) => p1 = p /\ v1 = v0
    /\ Abs(v1) <= Abs(v0)

\* the same with the low wall tried first, the high wall only when the low wall
\* is not crossed
AxisReflectedLowFirst(p0, v0, p1, v1, radius, delta_time, bound) ==
    LET p == p0 + v0 * delta_time IN
    /\ p - radius < 0 => p1 = radius /\ v1 = Abs(v0)
    /\ (p - radius >= 0 /\ p + radius > bound) => p1 = bound - radius /\ v1 = -Abs(v0)
    /\ (p - radius >= 0 /\ p + radius <= bound) => p1 = p /\ v1 = v0
    /\ Abs(v1) = Abs(v0)

\* C22 as claimed: on each axis by itself, a circle that crosses the low wall
\* after integration is put at radius with a velocity of the same magnitude and
\* non-negative, a circle that crosses the high wall is put at bound - radius
\* with a velocity of the same magnitude and non-positive, and an axis on which
\* no wall is crossed keeps its integrated position and its velocity.
C22_WallReflection ==
    last.op = "integrate" =>
        LET b == last.arg.body
            dt == last.arg.delta_time
        IN  /\ AxisReflected(b.x, b.vx, last.ret.x, last.ret.vx, b.radius, dt, WORLD_WIDTH)
            /\ AxisReflected(b.y, b.vy, last.ret.y, last.ret.vy, b.radius, dt, WORLD_HEIGHT)
            /\ last.ret.radius = b.radius /\ last.ret.some

\* C22 as amended: the same, except that the high wall is looked at only when
\* the low wall is not crossed: a circle that crosses both walls of an axis (its
\* diameter exceeds the world's extent) is put at radius with a non-negative
\* velocity, past the high wall.
C22_WallReflectionLowFirst ==
    last.op = "integrate" =>
        LET b == last.arg.body
            dt == last.arg.delta_time
        IN  /\ AxisReflectedLowFirst(b.x, b.vx, last.ret.x, last.ret.vx, b.radius, dt,
                                     WORLD_WIDTH)
            /\ AxisReflectedLowFirst(b.y, b.vy, last.ret.y, last.ret.vy, b.radius, dt,
                                     WORLD_HEIGHT)
            /\ last.ret.radius = b.radius /\ last.ret.some

\* a body wider than the world is high crossed both walls of y and was put at
\* radius, past the high wall, moving on downward; on x it was moving inward
\* across the low wall and kept its velocity
C22_Witness ==
    /\ last.op = "integrate"
    /\ LET b == last.arg.body
           y1 == b.y + b.vy * last.arg.delta_time
       IN
       /\ y1 - b.radius < 0 /\ y1 + b.radius > WORLD_HEIGHT
       /\ b.vy < 0
       /\ last.ret.y = b.radius /\ last.ret.vy = -b.vy
       /\ last.ret.y + b.radius > WORLD_HEIGHT
       /\ 2 * b.radius <= WORLD_WIDTH
       /\ b.vx > 0
       /\ b.x + b.vx * last.arg.delta_time - b.radius < 0
       /\ last.ret.x = b.radius /\ last.ret.vx = b.vx

(***************************************************************************)
(* Properties of the query's result vector, under SpecGrid.                *)
(***************************************************************************)
\* no value occurs twice in the sequence s
NoDuplicates(s) == \A a, b \in DOMAIN s : a # b => s[a] # s[b]

\* C23: the result of a query holds each index at most once, whatever the number
\* of visited cells that hold the index and whatever the state of the
\* per-query generation counter, its wrap-around included; this of every
\* circle of GridProbes in every state, and of the query that was last made.
\* (seen_marks has no elements in any reachable state, so every index falls to
\* the hash set.)
C23_QueryDeduplicated ==
    /\ \A c \in GridProbes :
          \E q \in {query(g, c.x, c.y, c.radius, NoSeen)} : NoDuplicates(q.results)
    /\ last.op = "query" => NoDuplicates(last.ret)
    /\ g.seen_marks = << >>

\* the query in which the generation counter wrapped around (it is 1 after a
\* query) returned once an index that was inserted twice and is held, several
\* times over, by several of the cells the query read
C23_Witness ==
    /\ last.op = "query"
    /\ g.seen_stamp = 1
    /\ \E i \in SeqRange(last.ret) :
          /\ Cardinality({b \in live : b.index = i}) >= 2
          /\ Cardinality({idx \in CellsOf(g, last.arg) :
                             /\ CellAt(g, idx).stamp = g.stamp
                             /\ i \in SeqRange(CellAt(g, idx).items)}) >= 2
          /\ \E idx \in CellsOf(g, last.arg) :
                /\ CellAt(g, idx).stamp = g.stamp
                /\ Cardinality({k \in DOMAIN CellAt(g, idx).items :
                                   CellAt(g, idx).items[k] = i}) >= 2
          /\ Cardinality({k \in DOMAIN last.ret : last.ret[k] = i}) = 1

(***************************************************************************)
(* Properties of the grid's shape, under SpecGrid.                         *)
(***************************************************************************)
\* insert and query called with circle c touch cells of the array only: the
\* clamped range is a range of columns and rows of the grid, not empty
AccessInside(grid, c) ==
    LET rg == CellRange(grid, c.x, c.y, c.radius) IN
    /\ 0 <= rg.min_col /\ rg.min_col <= rg.max_col /\ rg.max_col < grid.cols
    /\ 0 <= rg.min_row /\ rg.min_row <= rg.max_row /\ rg.max_row < grid.rows
    /\ CellsOf(grid, c) \subseteq 0..(grid.cells_len - 1)

\* C24: in every state cols = max(1, ceil(width / cell_size)) and rows =
\* max(1, ceil(height / cell_size)) for the current cell size, the cell array
\* holds cols * rows cells, and the cells that insert and query touch, for a
\* circle inside the rectangle, across its border or outside it, are cells of
\* the array; so are the cells that have been written.
C24_GridShape ==
    /\ g.cols = Max(1, CeilDiv(g.width, g.cell_size))
    /\ g.rows = Max(1, CeilDiv(g.height, g.cell_size))
    /\ g.cells_len = g.cols * g.rows
    /\ DOMAIN g.cells \subseteq 0..(g.cells_len - 1)
    /\ \A c \in GridProbes : AccessInside(g, c)
    /\ last.op \in {"insert", "query"} => AccessInside(g, last.arg)

\* after a set_cell_size that changed the shape of the grid (3x2 to 2x2) a body
\* past the low wall of x and the high wall of y was inserted into the corner
\* cell, the last of the array
C24_Witness ==
    /\ last.op = "insert"
    /\ g.cell_size = 3
    /\ g.cols = 2 /\ g.rows = 2 /\ g.cells_len = 4
    /\ last.arg.x < 0 /\ last.arg.y > GridDims.height
    /\ CellsOf(g, last.arg) = {2}
    /\ 2 \in DOMAIN g.cells
    /\ g.cells[2].stamp = g.stamp

(***************************************************************************)
(* Spawning and removing on their own, long enough for next_entity_id to   *)
(* reach IdMax.  Here live is the set of the ids of the entities removed   *)
(* so far, and the result recorded for a spawn is the sequence of the ids  *)
(* it handed out.                                                          *)
(***************************************************************************)
\* calls per behaviour
MaxIdOps == 5

IdSpawnCounts == {1, SpawnCap}

IdSpawnRadii == {5}

IdSpawnSpeeds == {100}

\* the ids of entities[from..]
IdsFrom(entities, from) ==
    [k \in 1..(Len(entities) - from + 1) |-> entities[from + k - 1].id]

IdSpawn ==
    /\ nops < MaxIdOps
    /\ \E count \in IdSpawnCounts, radius \in IdSpawnRadii, speed \in IdSpawnSpeeds :
          \E s \in {spawn_random_entities(sim, count, radius, speed)} :
             /\ sim' = s
             /\ last' = [op |-> "spawn",
                         arg |-> [count |-> count, radius |-> radius, speed |-> speed],
                         ret |-> IdsFrom(s.world.entities, Len(sim.world.entities) + 1)]
    /\ nops' = nops + 1
    /\ UNCHANGED <<panicked, g, live, idle>>

IdRemoveHalf ==
    /\ nops < MaxIdOps
    /\ \E s \in {remove_half_entities(sim)} :
          /\ sim' = s
          /\ live' = live \cup
                SeqRange(IdsFrom(sim.world.entities, Len(s.world.entities) + 1))
    /\ last' = [op |-> "remove_half", arg |-> << >>, ret |-> << >>]
    /\ nops' = nops + 1
    /\ UNCHANGED <<panicked, g, idle>>

IdNext == IdSpawn \/ IdRemoveHalf

SpecIds == Init /\ [][IdNext]_vars

\* remove-half keeps the first floor(n / 2) entities as they are, in order, and
\* leaves the RNG and the next entity id alone
RemoveHalfFrame ==
    [][last'.op = "remove_half" =>
          /\ Len(sim'.world.entities) = Len(sim.world.entities) \div 2
          /\ \A k \in DOMAIN sim'.world.entities :
                sim'.world.entities[k] = sim.world.entities[k]
          /\ sim'.rng = sim.rng
          /\ sim'.next_entity_id = sim.next_entity_id
          /\ sim'.state_cache = write_entities(sim'.world.entities)]_vars

\* C25: remove-half keeps exactly the first floor(n / 2) entities, in their
\* order and with their ids and bodies, drops the others, and leaves the RNG
\* state and the next entity id as they were; and no spawn hands out the id
\* of an entity that was removed.
C25_RemoveHalf ==
    /\ RemoveHalfFrame
    /\ [](last.op = "spawn" => SeqRange(last.ret) \cap live = {})

\* C26: in every state the ids of the entities are pairwise distinct and
\* strictly increasing in collection order, also once the id counter has
\* reached its maximum.
C26_IdsUnique ==
    \A k \in DOMAIN sim.world.entities :
        \A j \in DOMAIN sim.world.entities :
            k < j => sim.world.entities[k].id < sim.world.entities[j].id

(***************************************************************************)
(* Previews among the other calls.  The record of a call holds, as         *)
(* `before`, the simulation the call was made on.                          *)
(***************************************************************************)
\* calls per behaviour
MaxPreviewOps == 3

PreviewSpawnCounts == {0, 2}

PreviewScaleArgs == {Num(2), NaN}

PreviewStepTimes == {Num(1), Num(-1)}

PreviewTimes == {Num(1), Num(0)}

PreviewCellSizes == {Num(100)}

PreviewEnabled == ~panicked /\ ~idle /\ nops < MaxPreviewOps

PvSpawn ==
    /\ PreviewEnabled
    /\ \E count \in PreviewSpawnCounts, radius \in SpawnRadii, speed \in SpawnSpeeds :
          \E s \in {spawn_random_entities(sim, count, radius, speed)} :
             Called(s, FALSE,
                    [op |-> "spawn",
                     arg |-> [count |-> count, radius |-> radius, speed |-> speed],
                     ret |-> << >>, before |-> sim])

PvRemoveHalf ==
    /\ PreviewEnabled
    /\ \E s \in {remove_half_entities(sim)} :
          Called(s, FALSE,
                 [op |-> "remove_half", arg |-> << >>, ret |-> << >>, before |-> sim])

PvSetCellSize ==
    /\ PreviewEnabled
    /\ \E size \in PreviewCellSizes :
          \E r \in {set_grid_cell_size(sim, size)} :
             Called(r.sim, r.panic,
                    [op |-> "set_cell_size", arg |-> size, ret |-> r.ret, before |-> sim])

PvScaleRadius ==
    /\ PreviewEnabled
    /\ \E factor \in PreviewScaleArgs :
          \E s \in {scale_radius(sim, factor)} :
             Called(s, FALSE,
                    [op |-> "scale_radius", arg |-> factor, ret |-> << >>, before |-> sim])

PvStep ==
    /\ PreviewEnabled
    /\ \E delta_time \in PreviewStepTimes, hash_key \in HashKeys :
          \E r \in {Simulation_update(sim, delta_time, hash_key)} :
             Called(r.sim, r.panic,
                    [op |-> "step", arg |-> delta_time, ret |-> << >>, before |-> sim])

PvPreview ==
    /\ PreviewEnabled
    /\ \E delta_time \in PreviewTimes, hash_key \in HashKeys :
          \E r \in {build_preview(sim, delta_time, hash_key)} :
             Called(r.sim, r.panic,
                    [op |-> "preview", arg |-> delta_time, ret |-> << >>, before |-> sim])

PvNext == PvSpawn \/ PvRemoveHalf \/ PvSetCellSize \/ PvScaleRadius \/ PvStep \/ PvPreview

SpecPreview == Init /\ [][PvNext]_vars

\* the call recorded is one of those that change the entity collection
ChangesEntities(call) ==
    \/ call.op = "spawn" /\ call.arg.count > 0
    \/ call.op = "remove_half"
    \/ call.op = "scale_radius" /\ call.arg.k = "num" /\ call.arg.v > 0
    \/ call.op = "step" /\ FGtZero(call.arg)

\* the snapshot a preview with delta_time makes of the entities of world
PreviewOf(world, delta_time) ==
    IF FGtZero(delta_time)
    THEN {write_entities(World_update(World_clone(world), delta_time.v, k).world.entities) :
             k \in HashKeys}
    ELSE {write_entities(world.entities)}

\* C27: a spawn with count > 0, a remove-half, a scale-radius with a valid
\* factor and a step with delta_time > 0 leave the preview snapshot empty, and
\* so does any call after which the entity collection is not what it was;
\* a preview snapshot that is not empty was either made by the call itself,
\* from the entity collection as it is after the call, or was there before the
\* call, which left the entity collection as it was.
C27_PreviewInvalidated ==
    last.op # "none" =>
        /\ ChangesEntities(last) => sim.preview_cache = << >>
        /\ sim.world.entities # last.before.world.entities => sim.preview_cache = << >>
        /\ sim.preview_cache # << >> =>
              \/ /\ last.op = "preview"
                 /\ sim.preview_cache \in PreviewOf(sim.world, last.arg)
              \/ /\ sim.preview_cache = last.before.preview_cache
                 /\ sim.world.entities = last.before.world.entities

\* a step has moved the bodies of a simulation that held a preview snapshot, and
\* has emptied the snapshot
C27_Witness ==
    /\ last.op = "step"
    /\ last.arg = Num(1)
    /\ last.before.preview_cache # << >>
    /\ last.before.preview_cache # write_entities(sim.world.entities)
    /\ sim.world.entities # last.before.world.entities
    /\ sim.preview_cache = << >>

====
